---- MODULE Spec2Model ----
(***************************************************************************)
(* A model of the two Flexget input plugins soup_parse and torznab.        *)
(*                                                                         *)
(* Strings are sequences of one-token strings (a token stands for one      *)
(* character, or for an indivisible piece of a URL such as "http://").     *)
(* A parsed document is a sequence of nodes in document (pre-)order; node  *)
(* 1 is the BeautifulSoup object itself.                                   *)
(***************************************************************************)
EXTENDS Integers, Sequences, FiniteSets, TLC

VARIABLES
    required,        \* SoupParse.required: the instance's list of required keys
    invocations,     \* number of on_task_input calls started on the instance
    pc,              \* position of the running on_task_input call
    config,          \* the call's configuration
    soup,            \* the parsed document of the call
    sections,        \* the section nodes of the call
    sec_num,         \* sections finished or in progress (loop counter)
    key_num,         \* keys of the current section already resolved
    entry,           \* the Entry being filled for the current section
    entries,         \* the Entry list built so far (each with its section number)
    resolved,        \* history: the Entry of every validated section, by section number
    key_to_regexps,  \* the compiled regexps of every key
    tag,             \* the working node of the key resolved last
    new_section,     \* the string resolved last, handed to the regexps
    last,            \* history: how the last key step ended
    joined,          \* history: line 382 (urljoin) ran for the key resolved last
    element_tag_list,\* resolver: the list of node lists, one per depth reached
    tag_search_terms,\* resolver: the compiled search terms
    scope_num,       \* resolver: the current depth
    master_tag_list, \* resolver: the returned list
    slices,          \* resolver history: per depth, per parent, the bounds used
    rpc,             \* resolver: position
    scope_limits,    \* resolver: the rule list being resolved
    rsoup,           \* resolver: the document being searched
    tz_config,       \* torznab: the configured searcher (after schema defaults)
    tz_caps,         \* torznab: the capability document
    tz_params,       \* torznab: self.params
    tz_supported,    \* torznab: self.supported_params
    tz_base_url,     \* torznab: self.base_url
    tz_pc            \* torznab: position / outcome of _setup

spvars == <<required, invocations, pc, config, soup, sections, sec_num, key_num, entry, entries, resolved, key_to_regexps, tag, new_section, last, joined>>
rvars == <<element_tag_list, tag_search_terms, scope_num, master_tag_list, slices, rpc, scope_limits, rsoup>>
tzvars == <<tz_config, tz_caps, tz_params, tz_supported, tz_base_url, tz_pc>>
vars == <<spvars, rvars, tzvars>>

(***************************************************************************)
(* Bounds of the model.                                                    *)
(***************************************************************************)
MaxDepth == 3
MaxStart == 2
MaxEnd == 2
MaxLoc == 2
MaxInvocations == 2
MaxCaps == 2

(***************************************************************************)
(* Generic helpers.                                                        *)
(***************************************************************************)
NoAttrs == [a \in {} |-> ""]

Min(a, b) == IF a < b THEN a ELSE b

RECURSIVE Concat(_)
Concat(ss) == IF ss = <<>> THEN <<>> ELSE Head(ss) \o Concat(Tail(ss))

Range(s) == {s[i] : i \in 1..Len(s)}

Whitespace == {" ", "\n"}

\* str.strip(): drop leading and trailing whitespace
RECURSIVE LStrip(_)
LStrip(s) == IF s # <<>> /\ Head(s) \in Whitespace THEN LStrip(Tail(s)) ELSE s

RECURSIVE RStrip(_)
RStrip(s) == IF s # <<>> /\ s[Len(s)] \in Whitespace THEN RStrip(SubSeq(s, 1, Len(s) - 1)) ELSE s

strip(s) == RStrip(LStrip(s))

(***************************************************************************)
(* The document tree as BeautifulSoup presents it.                         *)
(***************************************************************************)
Root == 1

Tag(p, n, at) == [parent |-> p, kind |-> "tag", name |-> n, attrs |-> at, text |-> <<>>]
Text(p, t) == [parent |-> p, kind |-> "text", name |-> "", attrs |-> NoAttrs, text |-> t]
SoupNode == [parent |-> 0, kind |-> "doc", name |-> "[document]", attrs |-> NoAttrs, text |-> <<>>]

RECURSIVE IsDescendant(_, _, _)
IsDescendant(doc, m, n) ==
    IF m <= n THEN FALSE
    ELSE doc[m].parent = n \/ IsDescendant(doc, doc[m].parent, n)

Nodes(doc) == [i \in 1..Len(doc) |-> i]

\* bs4: a compiled name pattern "^name$" is searched in the tag's name
NameMatches(doc, m, el_name) == doc[m].name = el_name

\* bs4: every attribute of att_dict must be present and its value match the pattern
AttrsMatch(doc, m, att_dict) ==
    \A a \in DOMAIN att_dict :
        /\ a \in DOMAIN doc[m].attrs
        /\ (att_dict[a] = ".*" \/ doc[m].attrs[a] = att_dict[a])

\* Tag.find_all(name, attrs): the matching descendant tags in document order
find_all(doc, n, el_name, att_dict) ==
    LET hit(m) ==
            /\ doc[m].kind = "tag"
            /\ IsDescendant(doc, m, n)
            /\ NameMatches(doc, m, el_name)
            /\ AttrsMatch(doc, m, att_dict)
    IN  SelectSeq(Nodes(doc), hit)

\* Tag.find_all(text=True): the descendant strings in document order
find_all_text(doc, n) ==
    LET hit(m) == doc[m].kind = "text" /\ IsDescendant(doc, m, n)
    IN  SelectSeq(Nodes(doc), hit)

\* Tag.text: the concatenation of all descendant strings
get_text(doc, n) ==
    LET ts == find_all_text(doc, n)
    IN  Concat([i \in 1..Len(ts) |-> doc[ts[i]].text])

(***************************************************************************)
(* Regular expressions: a pattern is a sequence of elements, each a        *)
(* literal token, "." or ".*"; matching backtracks as Python's re does.    *)
(***************************************************************************)
RE_I == 2
RE_L == 4
RE_M == 8
RE_S == 16
RE_U == 32
RE_X == 64
RE_DEBUG == 128

FLAG_VALUES ==
    [f \in {"DEBUG", "I", "IGNORECASE", "L", "LOCALE", "M", "MULTILINE", "S", "DOTALL", "U", "UNICODE", "X", "VERBOSE"} |->
        CASE f = "DEBUG" -> RE_DEBUG
          [] f \in {"I", "IGNORECASE"} -> RE_I
          [] f \in {"L", "LOCALE"} -> RE_L
          [] f \in {"M", "MULTILINE"} -> RE_M
          [] f \in {"S", "DOTALL"} -> RE_S
          [] f \in {"U", "UNICODE"} -> RE_U
          [] f \in {"X", "VERBOSE"} -> RE_X]

RECURSIVE BitOr(_, _)
BitOr(a, b) ==
    IF a = 0 THEN b
    ELSE IF b = 0 THEN a
    ELSE (IF a % 2 = 1 \/ b % 2 = 1 THEN 1 ELSE 0) + 2 * BitOr(a \div 2, b \div 2)

HasFlag(flags, bit) == (flags \div bit) % 2 = 1

\* flag_str is given as the list flag_str.split(',') yields, each name stripped
RECURSIVE flagstr_to_flags(_)
flagstr_to_flags(split_flags) ==
    IF split_flags = <<>> THEN 0
    ELSE BitOr(FLAG_VALUES[split_flags[Len(split_flags)]], flagstr_to_flags(SubSeq(split_flags, 1, Len(split_flags) - 1)))

compile_regexp_dict_list(re_list) ==
    [i \in 1..Len(re_list) |->
        [pattern |-> re_list[i].regexp,
         flags |-> IF "flags" \in DOMAIN re_list[i] THEN flagstr_to_flags(re_list[i].flags) ELSE 0]]

Fold(c) == IF c = "A" THEN "a" ELSE IF c = "B" THEN "b" ELSE c

DotMatches(c, flags) == c # "\n" \/ HasFlag(flags, RE_S)

LitMatches(lit, c, flags) == IF HasFlag(flags, RE_I) THEN Fold(lit) = Fold(c) ELSE lit = c

\* the number of characters from position i on that "." matches
RECURSIVE DotRun(_, _, _)
DotRun(s, i, flags) ==
    IF i <= Len(s) /\ DotMatches(s[i], flags) THEN 1 + DotRun(s, i + 1, flags) ELSE 0

\* the position after the match of pattern elements k.. at position i, or -1
RECURSIVE MatchFrom(_, _, _, _, _)
RECURSIVE StarFrom(_, _, _, _, _, _)
MatchFrom(p, k, s, i, flags) ==
    IF k > Len(p) THEN i
    ELSE IF p[k] = ".*" THEN StarFrom(p, k, s, i, i + DotRun(s, i, flags), flags)
    ELSE IF i > Len(s) THEN -1
    ELSE IF p[k] = "." THEN (IF DotMatches(s[i], flags) THEN MatchFrom(p, k + 1, s, i + 1, flags) ELSE -1)
    ELSE IF LitMatches(p[k], s[i], flags) THEN MatchFrom(p, k + 1, s, i + 1, flags)
    ELSE -1

\* greedy ".*": try the longest run first, then give characters back
StarFrom(p, k, s, lo, j, flags) ==
    IF j < lo THEN -1
    ELSE LET r == MatchFrom(p, k + 1, s, j, flags)
         IN  IF r # -1 THEN r ELSE StarFrom(p, k, s, lo, j - 1, flags)

\* regexp.search(string): the leftmost match, m.group(0) in group0
RECURSIVE SearchFrom(_, _, _)
SearchFrom(regexp, s, i) ==
    IF i > Len(s) + 1 THEN [found |-> FALSE, group0 |-> <<>>, at |-> 0]
    ELSE LET e == MatchFrom(regexp.pattern, 1, s, i, regexp.flags)
         IN  IF e # -1 THEN [found |-> TRUE, group0 |-> SubSeq(s, i, e - 1), at |-> i]
             ELSE SearchFrom(regexp, s, i + 1)

search(regexp, s) == SearchFrom(regexp, s, 1)

(***************************************************************************)
(* The scope-limiter compiler, SoupParse._tag_limiter.  A bare string rule *)
(* is [str |-> name]; a structured rule is a record of the schema's        *)
(* properties, start and end always present (schema defaults).             *)
(***************************************************************************)
EndDefault == 31415

None == "<None>"

\* f"{x}"
Format(x) == IF x = None THEN "None" ELSE x

get(limit, k) == IF k \in DOMAIN limit THEN limit[k] ELSE None

\* the strings handed to eval(): str(n), or "len(new_tag_list)"
IntExpr(n) == <<"int", n>>
LenExpr == <<"len(new_tag_list)">>

eval(e, new_tag_list) == IF e = LenExpr THEN Len(new_tag_list) ELSE e[2]

compile_limit(limit) ==
    IF "str" \in DOMAIN limit
    THEN <<limit.str, NoAttrs, IntExpr(0), LenExpr>>
    ELSE LET att_name == get(limit, "attribute_name")
             att_val == get(limit, "attribute_value")
             att_dict == IF att_name = None /\ att_val = None THEN NoAttrs
                         ELSE (att_name :> (IF att_val = None THEN ".*" ELSE att_val))
             end == IF limit.end = EndDefault THEN LenExpr ELSE IntExpr(limit.end)
         IN  <<Format(get(limit, "element_name")), att_dict, IntExpr(limit.start - 1), end>>

tag_limiter(limits) == [i \in 1..Len(limits) |-> compile_limit(limits[i])]

(***************************************************************************)
(* The hierarchical tag resolver, SoupParse._get_master_tag_list.          *)
(***************************************************************************)
\* variant: the declared start is used as it is
effective_start_unclamped(term, new_tag_list) == eval(term[3], new_tag_list)

\* variant: the start is compared with the match count only, not with the end
effective_start_count_only(term, new_tag_list) ==
    IF eval(term[3], new_tag_list) >= Len(new_tag_list)
    THEN 0
    ELSE eval(term[3], new_tag_list)

\* the start used for one parent's matches
effective_start(term, new_tag_list) ==
    IF \/ eval(term[3], new_tag_list) >= eval(term[4], new_tag_list)
       \/ eval(term[3], new_tag_list) >= Len(new_tag_list)
    THEN 0
    ELSE eval(term[3], new_tag_list)

\* variant: the end is clamped to the last index instead of the count
effective_end_off_by_one(term, new_tag_list) ==
    IF eval(term[4], new_tag_list) > Len(new_tag_list)
    THEN Len(new_tag_list) - 1
    ELSE eval(term[4], new_tag_list)

\* the end used for one parent's matches
effective_end(term, new_tag_list) ==
    IF eval(term[4], new_tag_list) > Len(new_tag_list)
    THEN Len(new_tag_list)
    ELSE eval(term[4], new_tag_list)

\* for y in range(start, end): temp_list.append(new_tag_list[y])
slice(new_tag_list, start, end) ==
    [y \in 1..(IF end > start THEN end - start ELSE 0) |-> new_tag_list[start + y]]

\* the matches of one parent that a non-final depth carries on
limited_matches(doc, parent, term) ==
    LET new_tag_list == find_all(doc, parent, term[1], term[2])
    IN  slice(new_tag_list, effective_start(term, new_tag_list), effective_end(term, new_tag_list))

\* the non-final branch: temp_list over all parents of the depth
descend(doc, parents, term) ==
    Concat([x \in 1..Len(parents) |-> limited_matches(doc, parents[x], term)])

\* variant: the final depth slices as the other depths do
flatten_sliced(doc, parents, term) == descend(doc, parents, term)

\* the final branch: all matches under every parent, unsliced
flatten(doc, parents, term) ==
    Concat([x \in 1..Len(parents) |-> find_all(doc, parents[x], term[1], term[2])])

RECURSIVE get_master_tag_list(_, _, _, _)
get_master_tag_list(doc, etl, sn, terms) ==
    IF sn + 1 < Len(terms)
    THEN get_master_tag_list(doc, Append(etl, descend(doc, etl[sn + 1], terms[sn + 1])), sn + 1, terms)
    ELSE flatten(doc, etl[sn + 1], terms[sn + 1])

(***************************************************************************)
(* Documents.                                                              *)
(***************************************************************************)
Class(c) == "class" :> c
Href(h) == "href" :> h

\* nested lists: the parents of one depth have 5, 2, 1 and 0 div descendants
DocNested ==
    << SoupNode,
       Tag(1, "div", Class("item")),
       Tag(2, "div", NoAttrs),
       Tag(3, "div", Class("item")),
       Tag(4, "a", Href(<<"/", "x">>)),
       Tag(3, "div", NoAttrs),
       Tag(2, "div", Class("item")),
       Tag(7, "div", NoAttrs),
       Tag(8, "span", Class("date")) >>

\* a feed page: three sections, the third without link
DocFeed ==
    << SoupNode,
       Tag(1, "body", NoAttrs),
       Tag(2, "div", Class("item")),
       Tag(3, "a", Href(<<"/", "x">>)),
       Text(4, <<"a">>),
       Tag(3, "span", Class("date")),
       Text(6, <<"b", " ", "a">>),
       Text(3, <<" ">>),
       Tag(2, "div", Class("item")),
       Text(9, <<"\n">>),
       Tag(9, "a", Href(<<"http://", "h", "/", "y">>)),
       Text(11, <<"c">>),
       Tag(11, "b", NoAttrs),
       Text(13, <<"a">>),
       Tag(9, "span", Class("date")),
       Text(15, <<"c">>),
       Tag(2, "div", NoAttrs),
       Tag(17, "span", NoAttrs) >>

(***************************************************************************)
(* The section/field extractor, SoupParse.on_task_input.                   *)
(***************************************************************************)
\* a location given as a string; the dict form is [text |-> N] or [url |-> N]
Literal(l) == [str |-> l]

startswith(s, prefix) == Len(s) >= Len(prefix) /\ SubSeq(s, 1, Len(prefix)) = prefix

Schemes == {"http://", "https://"}

\* the index of the last "/" of a URL's path, 0 if it has none
RECURSIVE LastSlash(_, _)
LastSlash(u, i) == IF i = 0 THEN 0 ELSE IF u[i] = "/" THEN i ELSE LastSlash(u, i - 1)

\* urllib.parse.urljoin for URLs of the form scheme, host, path tokens
urljoin(base, url) ==
    IF url = <<>> THEN base
    ELSE IF url[1] \in Schemes THEN url
    ELSE IF url[1] = "/" THEN SubSeq(base, 1, 2) \o url
    ELSE IF LastSlash(base, Len(base)) = 0 THEN base \o <<"/">> \o url
    ELSE SubSeq(base, 1, LastSlash(base, Len(base))) \o url

\* tag['href']
HasHref(doc, n) == "href" \in DOMAIN doc[n].attrs

\* lines 376-413: the string a location selects under the working node;
\* error is set where tag['href'] raises KeyError
locate(doc, url, t, location_info) ==
    IF "str" \in DOMAIN location_info
    THEN IF location_info.str = "text"
         THEN [error |-> FALSE, new_section |-> strip(get_text(doc, t)), joined |-> FALSE]
         ELSE IF ~HasHref(doc, t) THEN [error |-> TRUE, new_section |-> <<>>, joined |-> FALSE]
         ELSE LET href == doc[t].attrs["href"]
              IN  IF ~startswith(href, <<"http://">>) \/ ~startswith(href, <<"https://">>)
                  THEN [error |-> FALSE, new_section |-> urljoin(url, href), joined |-> TRUE]
                  ELSE [error |-> FALSE, new_section |-> href, joined |-> FALSE]
    ELSE LET location == CHOOSE l \in DOMAIN location_info : TRUE
             loc == location_info[location] - 1
         IN  IF location = "text"
             THEN LET contents_list == find_all_text(doc, t)
                      nonempty(m) == strip(doc[m].text) # <<>>
                      new_section_list == SelectSeq(contents_list, nonempty)
                      \* line 394 assigns the chosen text to new_section_list
                      chosen == IF Len(new_section_list) > loc THEN new_section_list[loc + 1] ELSE 0
                  IN  [error |-> FALSE, new_section |-> <<>>, joined |-> FALSE]
             ELSE LET contents_list == find_all(doc, t, "a", NoAttrs)
                  IN  IF contents_list # <<>> /\ Len(contents_list) > loc
                      THEN IF HasHref(doc, contents_list[loc + 1])
                           THEN [error |-> FALSE, new_section |-> doc[contents_list[loc + 1]].attrs["href"], joined |-> FALSE]
                           ELSE [error |-> TRUE, new_section |-> <<>>, joined |-> FALSE]
                      ELSE [error |-> FALSE, new_section |-> <<>>, joined |-> FALSE]

\* entry[key] = value
SetItem(e, key, value) == (key :> value) @@ e

\* variant: the loop goes on after a match, so the last matching regexp wins
RECURSIVE apply_regexps_no_break(_, _, _, _)
apply_regexps_no_break(regexps, s, key, e) ==
    IF regexps = <<>> \/ s = <<>> THEN e
    ELSE LET m == search(Head(regexps), s)
         IN  apply_regexps_no_break(Tail(regexps), s, key, IF m.found THEN SetItem(e, key, m.group0) ELSE e)

\* lines 415-423: the first regexp that matches sets the key
RECURSIVE apply_regexps(_, _, _, _)
apply_regexps(regexps, s, key, e) ==
    IF regexps = <<>> \/ s = <<>> THEN e
    ELSE LET m == search(Head(regexps), s)
         IN  IF m.found THEN SetItem(e, key, m.group0)
             ELSE apply_regexps(Tail(regexps), s, key, e)

DefaultRegexps == << [regexp |-> <<".*">>] >>

\* lines 354-375: the working node of a key in a section, 0 if its
\* 'section' rules find none
working_node(doc, section, value) ==
    IF "section" \in DOMAIN value /\ value.section # <<>>
    THEN LET tag_list == get_master_tag_list(doc, << <<section>> >>, 0, tag_limiter(value.section))
         IN  IF tag_list # <<>> THEN tag_list[1] ELSE 0
    ELSE section

location_of(value) == IF "location" \in DOMAIN value THEN value.location ELSE Literal("text")

\* flexget.entry.Entry.isvalid: title and url are set
EntryIsValid(e) == "title" \in DOMAIN e /\ "url" \in DOMAIN e

\* variant: only the host's own check
isvalid_host_only(req, e) == EntryIsValid(e)

\* SoupParse.isvalid, req being self.required
isvalid(req, e) == (\A i \in 1..Len(req) : req[i] \in DOMAIN e) /\ EntryIsValid(e)

\* lines 338-345: the keys of a configuration marked required, in key order
required_of(keys) ==
    LET marked(kv) == "required" \in DOMAIN kv[2] /\ kv[2].required
        ks == SelectSeq(keys, marked)
    IN  [i \in 1..Len(ks) |-> ks[i][1]]

KeyNames(keys) == {keys[i][1] : i \in 1..Len(keys)}

\* lines 314-348: fetch and parse, find the sections, compile the regexps,
\* note the required keys
Call(cfg, doc) ==
    /\ invocations' = invocations + 1
    /\ config' = cfg
    /\ soup' = doc
    /\ sections' = IF cfg.sections # <<>>
                   THEN get_master_tag_list(doc, << <<Root>> >>, 0, tag_limiter(cfg.sections))
                   ELSE <<Root>>
    /\ key_to_regexps' = [k \in KeyNames(cfg.keys) |->
            LET kv == CHOOSE kv \in Range(cfg.keys) : kv[1] = k
            IN  compile_regexp_dict_list(IF "regexps" \in DOMAIN kv[2] THEN kv[2].regexps ELSE DefaultRegexps)]
    /\ required' = required \o required_of(cfg.keys)
    /\ entries' = <<>>
    /\ resolved' = <<>>
    /\ sec_num' = 0
    /\ key_num' = 0
    /\ entry' = NoAttrs
    /\ tag' = 0
    /\ new_section' = <<>>
    /\ last' = "none"
    /\ joined' = FALSE
    /\ pc' = "section"

\* lines 349-351: the next section, with a fresh Entry
NextSection ==
    /\ pc = "section"
    /\ sec_num < Len(sections)
    /\ sec_num' = sec_num + 1
    /\ entry' = NoAttrs
    /\ key_num' = 0
    /\ last' = "none"
    /\ pc' = "keys"
    /\ UNCHANGED <<required, invocations, config, soup, sections, entries, resolved, key_to_regexps, tag, new_section, joined>>

\* lines 353-423: one key of the current section
ResolveKey ==
    /\ pc = "keys"
    /\ key_num < Len(config.keys)
    /\ LET key == config.keys[key_num + 1][1]
           value == config.keys[key_num + 1][2]
           t == working_node(soup, sections[sec_num], value)
           r == locate(soup, config.source, t, location_of(value))
       IN  IF t = 0
           THEN /\ last' = "no_tag"
                /\ key_num' = key_num + 1
                /\ UNCHANGED <<tag, new_section, joined, entry, pc>>
           ELSE IF r.error
           THEN /\ last' = "KeyError"
                /\ tag' = t
                /\ pc' = "error"
                /\ UNCHANGED <<new_section, joined, entry, key_num>>
           ELSE /\ last' = "resolved"
                /\ tag' = t
                /\ new_section' = r.new_section
                /\ joined' = r.joined
                /\ entry' = apply_regexps(key_to_regexps[key], r.new_section, key, entry)
                /\ key_num' = key_num + 1
                /\ UNCHANGED pc
    /\ UNCHANGED <<required, invocations, config, soup, sections, sec_num, entries, resolved, key_to_regexps>>

\* lines 424-425: keep the Entry if it is valid
Validate ==
    /\ pc = "keys"
    /\ key_num = Len(config.keys)
    /\ entries' = IF isvalid(required, entry) THEN Append(entries, [sec |-> sec_num, fields |-> entry]) ELSE entries
    /\ resolved' = Append(resolved, entry)
    /\ pc' = "section"
    /\ UNCHANGED <<required, invocations, config, soup, sections, sec_num, key_num, entry, key_to_regexps, tag, new_section, last, joined>>

\* line 427
Return ==
    /\ pc = "section"
    /\ sec_num = Len(sections)
    /\ pc' = "done"
    /\ UNCHANGED <<required, invocations, config, soup, sections, sec_num, key_num, entry, entries, resolved, key_to_regexps, tag, new_section, last, joined>>

(***************************************************************************)
(* The resolver on its own: a rule list is compiled and resolved against   *)
(* the document root, one depth per step.                                  *)
(***************************************************************************)
Bare(n) == [str |-> n]

Ends == (1..MaxEnd) \cup {EndDefault}

\* rules that differ in their bounds
SliceRules ==
    {[element_name |-> "div", start |-> s, end |-> e] : s \in 1..MaxStart, e \in Ends} \cup {Bare("div")}

\* rules that differ in what they constrain (schema: anyOf, dependencies)
ShapeRules ==
    LET el == {NoAttrs} \cup {"element_name" :> n : n \in {"div", "a"}}
        at == {NoAttrs, "attribute_name" :> "class", ("attribute_name" :> "class") @@ ("attribute_value" :> "item")}
    IN  {e @@ a @@ [start |-> 1, end |-> EndDefault] : e \in el, a \in at} \ {[start |-> 1, end |-> EndDefault]}

ListsUpTo(S, n) == UNION {[1..k -> S] : k \in 1..n}

ResolverInputs ==
    ({DocNested} \X ListsUpTo(SliceRules, MaxDepth)) \cup ({DocNested, DocFeed} \X ListsUpTo(ShapeRules, 2))

RIdle ==
    /\ element_tag_list = <<>>
    /\ tag_search_terms = <<>>
    /\ scope_num = 0
    /\ master_tag_list = <<>>
    /\ slices = <<>>
    /\ rpc = "idle"
    /\ scope_limits = <<>>
    /\ rsoup = <<>>

\* on_task_input's call: compile the rules, start at the document root
RCompile ==
    /\ rpc = "start"
    /\ tag_search_terms' = tag_limiter(scope_limits)
    /\ element_tag_list' = << <<Root>> >>
    /\ scope_num' = 0
    /\ rpc' = "resolve"
    /\ UNCHANGED <<master_tag_list, slices, scope_limits, rsoup>>

\* what one parent contributes at a non-final depth, with the bounds used
SliceRecord(doc, parent, term) ==
    LET new_tag_list == find_all(doc, parent, term[1], term[2])
    IN  [parent |-> parent,
         count |-> Len(new_tag_list),
         matches |-> new_tag_list,
         start |-> effective_start(term, new_tag_list),
         end |-> effective_end(term, new_tag_list)]

\* the non-final branch of _get_master_tag_list, then the recursive call
RDescend ==
    /\ rpc = "resolve"
    /\ scope_num + 1 < Len(tag_search_terms)
    /\ LET parents == element_tag_list[scope_num + 1]
           term == tag_search_terms[scope_num + 1]
       IN  /\ element_tag_list' = Append(element_tag_list, descend(rsoup, parents, term))
           /\ slices' = Append(slices, [x \in 1..Len(parents) |-> SliceRecord(rsoup, parents[x], term)])
    /\ scope_num' = scope_num + 1
    /\ UNCHANGED <<tag_search_terms, master_tag_list, rpc, scope_limits, rsoup>>

\* the final branch of _get_master_tag_list
RFinal ==
    /\ rpc = "resolve"
    /\ ~(scope_num + 1 < Len(tag_search_terms))
    /\ master_tag_list' = flatten(rsoup, element_tag_list[scope_num + 1], tag_search_terms[scope_num + 1])
    /\ rpc' = "done"
    /\ UNCHANGED <<element_tag_list, tag_search_terms, scope_num, slices, scope_limits, rsoup>>

\* the extractor at rest
SpIdle ==
    /\ required = <<>>
    /\ invocations = 0
    /\ pc = "idle"
    /\ config = <<>>
    /\ soup = <<>>
    /\ sections = <<>>
    /\ sec_num = 0
    /\ key_num = 0
    /\ entry = NoAttrs
    /\ entries = <<>>
    /\ resolved = <<>>
    /\ key_to_regexps = NoAttrs
    /\ tag = 0
    /\ new_section = <<>>
    /\ last = "none"
    /\ joined = FALSE

\* the torznab client at rest
TzIdle ==
    /\ tz_config = <<>>
    /\ tz_caps = <<>>
    /\ tz_params = NoAttrs
    /\ tz_supported = <<>>
    /\ tz_base_url = <<>>
    /\ tz_pc = "idle"

RInit ==
    /\ SpIdle
    /\ TzIdle
    /\ \E in \in ResolverInputs : rsoup = in[1] /\ scope_limits = in[2]
    /\ element_tag_list = <<>>
    /\ tag_search_terms = <<>>
    /\ scope_num = 0
    /\ master_tag_list = <<>>
    /\ slices = <<>>
    /\ rpc = "start"

RNext ==
    \/ RCompile /\ UNCHANGED <<spvars, tzvars>>
    \/ RDescend /\ UNCHANGED <<spvars, tzvars>>
    \/ RFinal /\ UNCHANGED <<spvars, tzvars>>

SpecResolver == RInit /\ [][RNext]_vars

\* the call is over (returned, or left by the KeyError): its locals are gone,
\* the instance and its required list stay
Leave ==
    /\ pc \in {"done", "error"}
    /\ pc' = "idle"
    /\ config' = <<>>
    /\ soup' = <<>>
    /\ sections' = <<>>
    /\ sec_num' = 0
    /\ key_num' = 0
    /\ entry' = NoAttrs
    /\ entries' = <<>>
    /\ resolved' = <<>>
    /\ key_to_regexps' = NoAttrs
    /\ tag' = 0
    /\ new_section' = <<>>
    /\ last' = "none"
    /\ joined' = FALSE
    /\ UNCHANGED <<required, invocations>>

(***************************************************************************)
(* The extractor's inputs: configurations the schema admits.               *)
(***************************************************************************)
Source == <<"http://", "h", "/", "p">>

El(n) == [element_name |-> n, start |-> 1, end |-> EndDefault]
ElClass(n, c) == [element_name |-> n, attribute_name |-> "class", attribute_value |-> c, start |-> 1, end |-> EndDefault]

SectionsChoices == {<<>>, <<Bare("div")>>}

TitleRules == {[section |-> <<El("a")>>], NoAttrs}

UrlRules ==
    {[section |-> <<El("a")>>, location |-> Literal("url")], [section |-> <<El("span")>>, location |-> Literal("url")]}
        \cup {[location |-> [url |-> n]] : n \in 1..MaxLoc}

RegexpsChoices ==
    { << [regexp |-> <<"a">>], [regexp |-> <<"b">>] >>,
      << [regexp |-> <<"z">>] >>,
      << [regexp |-> <<"z">>], [regexp |-> <<"B", ".*">>, flags |-> <<"DOTALL", "IGNORECASE">>] >> }

DateRules ==
    LET sec == {NoAttrs, "section" :> <<ElClass("span", "date")>>}
        loc == {NoAttrs, "location" :> Literal("text")}
                 \cup {"location" :> [text |-> n] : n \in 1..MaxLoc}
                 \cup {"location" :> [url |-> n] : n \in 1..MaxLoc}
        reg == {NoAttrs} \cup {"regexps" :> r : r \in RegexpsChoices}
        req == {NoAttrs, "required" :> TRUE, "required" :> FALSE}
    IN  {a @@ b @@ c @@ d : a \in sec, b \in loc, c \in reg, d \in req}

KeysChoices ==
    {<< <<"title", t>>, <<"url", u>> >> : t \in TitleRules, u \in UrlRules}
        \cup {<< <<"title", t>>, <<"url", u>>, <<"date", d>> >> : t \in TitleRules, u \in UrlRules, d \in DateRules}

Configs == {[source |-> Source, sections |-> sl, keys |-> ks] : sl \in SectionsChoices, ks \in KeysChoices}

Documents == {DocFeed}

\* the host calls on_task_input with a task's configuration and document
Invoke ==
    /\ pc = "idle"
    /\ invocations < MaxInvocations
    /\ \E cfg \in Configs : \E doc \in Documents : Call(cfg, doc)

Init ==
    /\ SpIdle
    /\ RIdle
    /\ TzIdle

Next ==
    \/ Invoke /\ UNCHANGED <<rvars, tzvars>>
    \/ NextSection /\ UNCHANGED <<rvars, tzvars>>
    \/ ResolveKey /\ UNCHANGED <<rvars, tzvars>>
    \/ Validate /\ UNCHANGED <<rvars, tzvars>>
    \/ Return /\ UNCHANGED <<rvars, tzvars>>
    \/ Leave /\ UNCHANGED <<rvars, tzvars>>

Spec == Init /\ [][Next]_vars

(***************************************************************************)
(* The torznab client: Torznab._setup and what it calls.  The capability   *)
(* document is what BeautifulSoup makes of the indexer's answer: whether   *)
(* it has a <searching> element, and that element's children.              *)
(***************************************************************************)
aliases == [s \in {"movie", "search", "tvsearch"} |->
                CASE s = "movie" -> "movie-search"
                  [] s = "search" -> "search"
                  [] s = "tvsearch" -> "tv-search"]

\* str.split(',')
RECURSIVE split(_)
split(str) ==
    LET cut == CHOOSE i \in 1..Len(str) + 1 : (i = Len(str) + 1 \/ str[i] = ",") /\ \A j \in 1..i - 1 : str[j] # ","
    IN  IF cut = Len(str) + 1 THEN <<str>>
        ELSE <<SubSeq(str, 1, cut - 1)>> \o split(SubSeq(str, cut + 1, Len(str)))

\* str.rstrip('/')
RECURSIVE rstrip_slash(_)
rstrip_slash(u) == IF u # <<>> /\ u[Len(u)] = "/" THEN rstrip_slash(SubSeq(u, 1, Len(u) - 1)) ELSE u

\* line 84: {item.name: item.attrs for item in ... if type(item) == element.Tag}
RECURSIVE searchers_of(_)
searchers_of(children) ==
    IF children = <<>> THEN NoAttrs
    ELSE LET item == children[Len(children)]
             rest == searchers_of(SubSeq(children, 1, Len(children) - 1))
         IN  IF item.kind = "tag" THEN (item.name :> item.attrs) @@ rest ELSE rest

\* Torznab._check_searcher: "true", "false", or "KeyError" where an attribute
\* it reads is missing
check_searcher(searchers, searcher) ==
    IF searcher \notin DOMAIN searchers THEN "false"
    ELSE IF "available" \notin DOMAIN searchers[searcher] THEN "KeyError"
    ELSE IF searchers[searcher]["available"] # "yes" THEN "false"
    ELSE IF "supportedparams" \notin DOMAIN searchers[searcher] THEN "KeyError"
    ELSE IF searchers[searcher]["supportedparams"] # <<>> THEN "true" ELSE "false"

\* Torznab._setup_searcher: the outcome, and the values it sets on success
setup_searcher(caps, searcher) ==
    IF ~caps.searching THEN [outcome |-> "TypeError"]
    ELSE LET searchers == searchers_of(caps.children)
             own == check_searcher(searchers, aliases[searcher])
             generic == check_searcher(searchers, "search")
         IN  IF DOMAIN searchers = {} THEN [outcome |-> "PluginError"]
             ELSE IF own = "KeyError" THEN [outcome |-> "KeyError"]
             ELSE IF own = "true"
             THEN [outcome |-> "ready", t |-> searcher, supported_params |-> split(searchers[aliases[searcher]]["supportedparams"])]
             ELSE IF searcher = "search" THEN [outcome |-> "PluginError"]
             ELSE IF generic = "KeyError" THEN [outcome |-> "KeyError"]
             ELSE IF generic = "true"
             THEN [outcome |-> "ready", t |-> "search", supported_params |-> split(searchers["search"]["supportedparams"])]
             ELSE [outcome |-> "PluginError"]

\* Torznab._setup, up to the call of _setup_caps
TzSetup ==
    /\ tz_pc = "start"
    /\ tz_base_url' = rstrip_slash(tz_config.website)
    /\ tz_supported' = <<>>
    /\ tz_config' = IF tz_config.searcher = "tv" THEN [tz_config EXCEPT !.searcher = "tvsearch"] ELSE tz_config
    /\ tz_params' = [apikey |-> tz_config.apikey, extended |-> 1]
    /\ tz_pc' = "caps"
    /\ UNCHANGED tz_caps

\* Torznab._setup_caps: the capabilities are fetched and the searcher chosen
TzSetupCaps ==
    /\ tz_pc = "caps"
    /\ LET r == setup_searcher(tz_caps, tz_config.searcher)
       IN  /\ tz_pc' = r.outcome
           /\ IF r.outcome = "ready"
              THEN /\ tz_params' = ("t" :> r.t) @@ tz_params
                   /\ tz_supported' = r.supported_params
              ELSE UNCHANGED <<tz_params, tz_supported>>
    /\ UNCHANGED <<tz_config, tz_caps, tz_base_url>>

\* Torznab.search returns (or the error leaves it); the next search starts
TzSearchAgain ==
    /\ tz_pc \in {"ready", "PluginError"}
    /\ tz_pc' = "start"
    /\ UNCHANGED <<tz_config, tz_caps, tz_params, tz_supported, tz_base_url>>

SearcherElements ==
    LET av == {NoAttrs, "available" :> "yes", "available" :> "no"}
        sp == {NoAttrs, "supportedparams" :> <<>>, "supportedparams" :> <<"q", ",", "season">>}
    IN  {[kind |-> "tag", name |-> n, attrs |-> a @@ p] : n \in {"search", "tv-search", "movie-search"}, a \in av, p \in sp}

CapsChildren == SearcherElements \cup {[kind |-> "text", name |-> "", attrs |-> NoAttrs]}

CapsDocuments ==
    {[searching |-> FALSE, children |-> <<>>]}
        \cup {[searching |-> TRUE, children |-> c] : c \in UNION {[1..n -> CapsChildren] : n \in 0..MaxCaps}}

TzConfigs ==
    {[website |-> <<"http://", "h", "/">>, apikey |-> "key", categories |-> <<>>, searcher |-> k] : k \in {"movie", "tv", "tvsearch", "search"}}

TzInit ==
    /\ SpIdle
    /\ RIdle
    /\ tz_config \in TzConfigs
    /\ tz_caps \in CapsDocuments
    /\ tz_params = NoAttrs
    /\ tz_supported = <<>>
    /\ tz_base_url = <<>>
    /\ tz_pc = "start"

TzNext ==
    \/ TzSetup /\ UNCHANGED <<spvars, rvars>>
    \/ TzSetupCaps /\ UNCHANGED <<spvars, rvars>>
    \/ TzSearchAgain /\ UNCHANGED <<spvars, rvars>>

SpecTorznab == TzInit /\ [][TzNext]_vars

(***************************************************************************)
(* Properties of the resolver.                                             *)
(***************************************************************************)
RECURSIVE InOrder(_)
InOrder(S) ==
    IF S = {} THEN <<>>
    ELSE LET m == CHOOSE x \in S : \A y \in S : x <= y
         IN  <<m>> \o InOrder(S \ {m})

Structured(rule) == "str" \notin DOMAIN rule

\* every recorded use of a rule on a parent: depth d, parent number x
SliceCases == UNION {{<<d, x>> : x \in 1..Len(slices[d])} : d \in 1..Len(slices)}

RuleOf(c) == scope_limits[c[1]]
RecOf(c) == slices[c[1]][c[2]]

\* the node list carried to the next depth is made of the recorded slices
SlicesUsed ==
    \A d \in 1..Len(slices) :
        element_tag_list[d + 1] = Concat([x \in 1..Len(slices[d]) |-> SubSeq(slices[d][x].matches, slices[d][x].start + 1, slices[d][x].end)])

\* C4 as stated: a structured rule whose declared (1-based) start is greater
\* than or equal to its declared end, or at or beyond the parent's match
\* count, is applied to that parent with effective start 0.
C4_StartClampedFromDeclared ==
    \A c \in SliceCases :
        Structured(RuleOf(c)) /\ (RuleOf(c).start >= RuleOf(c).end \/ RuleOf(c).start >= RecOf(c).count)
            => RecOf(c).start = 0

\* C4 amended: a structured rule whose declared (1-based) start is strictly
\* greater than its declared end, or strictly greater than the parent's match
\* count (its 0-based start, declared start - 1, is >= the end or the count),
\* is applied to that parent with effective start 0, and the slice carried on
\* starts there.
C4_StartClamped ==
    /\ \A c \in SliceCases :
        Structured(RuleOf(c)) /\ (RuleOf(c).start > RuleOf(c).end \/ RuleOf(c).start > RecOf(c).count)
            => RecOf(c).start = 0
    /\ SlicesUsed

C4_Witness ==
    \E c \in SliceCases :
        /\ Structured(RuleOf(c))
        /\ RuleOf(c).start > RuleOf(c).end
        /\ RecOf(c).count >= RuleOf(c).start
        /\ RecOf(c).start = 0
        /\ \E e \in SliceCases : Structured(RuleOf(e)) /\ RuleOf(e).start > RecOf(e).count /\ RecOf(e).count >= 1

\* C5: a rule applied to a parent with fewer matches than the rule's declared
\* end uses that parent's match count as effective end; the end is resolved
\* per parent, so parents with different (smaller) counts get different ends.
C5_EndClampedPerParent ==
    /\ \A c \in SliceCases :
        Structured(RuleOf(c)) /\ RecOf(c).count < RuleOf(c).end => RecOf(c).end = RecOf(c).count
    /\ \A c \in SliceCases : \A e \in SliceCases :
        /\ c[1] = e[1] /\ Structured(RuleOf(c))
        /\ RecOf(c).count < RuleOf(c).end /\ RecOf(e).count < RuleOf(c).end
        /\ RecOf(c).count # RecOf(e).count
        => RecOf(c).end # RecOf(e).end
    /\ SlicesUsed

C5_Witness ==
    \E c \in SliceCases : \E e \in SliceCases :
        /\ c[1] = e[1] /\ Structured(RuleOf(c)) /\ RuleOf(c).end # EndDefault
        /\ RecOf(c).count < RuleOf(c).end /\ RecOf(e).count < RuleOf(c).end
        /\ RecOf(c).count >= 1 /\ RecOf(e).count = 0
        /\ RecOf(c).end = RecOf(c).count /\ RecOf(e).end = 0

\* the elements under n that a compiled term matches
MatchesUnder(doc, n, term) ==
    {m \in 1..Len(doc) :
        /\ doc[m].kind = "tag" /\ IsDescendant(doc, m, n)
        /\ doc[m].name = term[1]
        /\ \A a \in DOMAIN term[2] : a \in DOMAIN doc[m].attrs /\ (term[2][a] = ".*" \/ doc[m].attrs[a] = term[2][a])}

LastRule == scope_limits[Len(scope_limits)]
Carried == element_tag_list[Len(element_tag_list)]

\* C9: the returned list is, for the nodes carried into the final depth in
\* order, all matches of the final term under each node, in document order,
\* whatever the final rule's start and end.
C9_FinalDepthUnsliced ==
    rpc = "done" =>
        master_tag_list = Concat([x \in 1..Len(Carried) |-> InOrder(MatchesUnder(rsoup, Carried[x], tag_search_terms[Len(tag_search_terms)]))])

C9_Witness ==
    /\ rpc = "done"
    /\ Len(scope_limits) >= 2
    /\ Structured(LastRule) /\ LastRule.start = 2 /\ LastRule.end = 1
    /\ Len(Carried) >= 2
    /\ Len(master_tag_list) > Len(Carried)

\* the elements under n with the rule's attribute, whatever their name
AttributeMatchesUnder(doc, n, rule) ==
    {m \in 1..Len(doc) :
        /\ doc[m].kind = "tag" /\ IsDescendant(doc, m, n)
        /\ rule.attribute_name \in DOMAIN doc[m].attrs
        /\ ("attribute_value" \in DOMAIN rule => doc[m].attrs[rule.attribute_name] = rule.attribute_value)}

\* C10: a structured rule without element_name matches, under any parent,
\* every descendant element whose named attribute matches, whatever its name.
C10_NameUnconstrained ==
    rpc = "done" /\ Structured(LastRule) /\ "element_name" \notin DOMAIN LastRule =>
        master_tag_list = Concat([x \in 1..Len(Carried) |-> InOrder(AttributeMatchesUnder(rsoup, Carried[x], LastRule))])

(***************************************************************************)
(* Properties of the extractor.                                            *)
(***************************************************************************)
Running == pc \in {"section", "keys", "done"}

RuleOfKey(k) == (CHOOSE kv \in Range(config.keys) : kv[1] = k)[2]

\* the keys the running call's configuration declares required: true
DeclaredRequired == {k \in KeyNames(config.keys) : "required" \in DOMAIN RuleOfKey(k) /\ RuleOfKey(k).required}

Emitted(i) == \E j \in 1..Len(entries) : entries[j].sec = i

\* what a key resolves to in a section, taken on its own
FieldAlone(i, k) ==
    LET t == working_node(soup, sections[i], RuleOfKey(k))
    IN  IF t = 0 THEN NoAttrs
        ELSE apply_regexps(key_to_regexps[k], locate(soup, config.source, t, location_of(RuleOfKey(k))).new_section, k, NoAttrs)

\* the record of a section, taken on its own: its first n keys
RECURSIVE FieldsAlone(_, _)
FieldsAlone(i, n) ==
    IF n = 0 THEN NoAttrs ELSE FieldAlone(i, config.keys[n][1]) @@ FieldsAlone(i, n - 1)

SectionAlone(i) == FieldsAlone(i, Len(config.keys))

KeptAlone(e) == EntryIsValid(e) /\ Range(required) \subseteq DOMAIN e

\* C1: a section whose record lacks a field declared required: true is not
\* in the returned list; and each section's record, and whether it is kept,
\* is what that section gives on its own, whatever happens to the others.
C1_RequiredDropsOnlyItsSection ==
    pc \in {"section", "done"} =>
        /\ \A i \in 1..Len(resolved) :
            (\E k \in DeclaredRequired : k \notin DOMAIN resolved[i]) => ~Emitted(i)
        /\ \A i \in 1..Len(resolved) :
            /\ resolved[i] = SectionAlone(i)
            /\ Emitted(i) <=> KeptAlone(resolved[i])
        /\ \A j \in 1..Len(entries) :
            /\ entries[j].fields = resolved[entries[j].sec]
            /\ j > 1 => entries[j - 1].sec < entries[j].sec

C1_Witness ==
    /\ pc = "done"
    /\ \E i \in 1..Len(resolved) : \E j \in 1..Len(resolved) :
        /\ EntryIsValid(resolved[i])
        /\ \E k \in DeclaredRequired : k \notin DOMAIN resolved[i]
        /\ ~Emitted(i)
        /\ i # j /\ Emitted(j)

\* C2: the fields enforced as required in a call are exactly those its own
\* configuration declares required: true (besides title and url), so a
\* record with title, url and its declared required fields is never dropped.
C2_RequiredIsPerInvocation ==
    Running =>
        /\ Range(required) = DeclaredRequired
        /\ \A i \in 1..Len(resolved) :
            EntryIsValid(resolved[i]) /\ DeclaredRequired \subseteq DOMAIN resolved[i] => Emitted(i)

\* the declared regexps of a key, the default when it gives none
DeclaredRegexps(k) == IF "regexps" \in DOMAIN RuleOfKey(k) THEN RuleOfKey(k).regexps ELSE DefaultRegexps

FlagNames(rule) == IF "flags" \in DOMAIN rule THEN Range(rule.flags) ELSE {}

\* one pattern element against one character
ElementAccepts(rule, el, c) ==
    IF el = "." THEN c # "\n" \/ FlagNames(rule) \cap {"S", "DOTALL"} # {}
    ELSE IF FlagNames(rule) \cap {"I", "IGNORECASE"} # {} THEN Fold(el) = Fold(c)
    ELSE el = c

\* the pattern as a whole against the word w
RECURSIVE Accepts(_, _, _)
Accepts(rule, p, w) ==
    IF p = <<>> THEN w = <<>>
    ELSE IF Head(p) = ".*"
    THEN \E n \in 0..Len(w) :
            /\ \A i \in 1..n : ElementAccepts(rule, ".", w[i])
            /\ Accepts(rule, Tail(p), SubSeq(w, n + 1, Len(w)))
    ELSE w # <<>> /\ ElementAccepts(rule, Head(p), Head(w)) /\ Accepts(rule, Tail(p), Tail(w))

\* where the pattern matches in s: <<first, last + 1>>
MatchesIn(rule, s) ==
    {ij \in (1..Len(s) + 1) \X (1..Len(s) + 1) : ij[1] <= ij[2] /\ Accepts(rule, rule.regexp, SubSeq(s, ij[1], ij[2] - 1))}

\* group 0: the leftmost match, the longest there (patterns with one ".*" at most)
GroupZero(rule, s) ==
    LET ij == CHOOSE m \in MatchesIn(rule, s) :
                \A o \in MatchesIn(rule, s) : m[1] < o[1] \/ (m[1] = o[1] /\ m[2] >= o[2])
    IN  SubSeq(s, ij[1], ij[2] - 1)

FirstAt(rule, s) == CHOOSE i \in 1..Len(s) + 1 : (\E m \in MatchesIn(rule, s) : m[1] = i) /\ \A m \in MatchesIn(rule, s) : m[1] >= i

JustResolved == pc = "keys" /\ last = "resolved" /\ key_num >= 1

LastKey == config.keys[key_num][1]

\* C3: a non-empty resolved string sets the field to group 0 of the earliest
\* regexp of the field's list that matches anywhere in it, wherever later
\* regexps match; the field stays unset when none matches.
C3_FirstRegexpWins ==
    JustResolved /\ new_section # <<>> =>
        LET regs == DeclaredRegexps(LastKey)
            hits == {i \in 1..Len(regs) : MatchesIn(regs[i], new_section) # {}}
        IN  IF hits = {} THEN LastKey \notin DOMAIN entry
            ELSE LET first == CHOOSE i \in hits : \A j \in hits : i <= j
                 IN  LastKey \in DOMAIN entry /\ entry[LastKey] = GroupZero(regs[first], new_section)

C3_Witness ==
    /\ JustResolved /\ new_section # <<>>
    /\ LET regs == DeclaredRegexps(LastKey)
       IN  /\ Len(regs) = 2
           /\ MatchesIn(regs[1], new_section) # {} /\ MatchesIn(regs[2], new_section) # {}
           /\ FirstAt(regs[2], new_section) < FirstAt(regs[1], new_section)
           /\ entry[LastKey] = GroupZero(regs[1], new_section)
           /\ entry[LastKey] # GroupZero(regs[2], new_section)

\* the text nodes under n that are non-empty after trimming, in document order
NonEmptyTexts(doc, n) ==
    InOrder({m \in 1..Len(doc) : doc[m].kind = "text" /\ IsDescendant(doc, m, n) /\ strip(doc[m].text) # <<>>})

\* C6: for location {text: N}, the string passed to the regexps is the N-th
\* non-empty text node under the working node (with the default regexps the
\* field is set from it); the field is unset when there are fewer than N.
C6_NthTextNode ==
    JustResolved /\ "str" \notin DOMAIN location_of(RuleOfKey(LastKey)) /\ "text" \in DOMAIN location_of(RuleOfKey(LastKey)) =>
        LET n == location_of(RuleOfKey(LastKey)).text
            texts == NonEmptyTexts(soup, tag)
        IN  IF Len(texts) >= n
            THEN /\ new_section = soup[texts[n]].text
                 /\ "regexps" \notin DOMAIN RuleOfKey(LastKey) => LastKey \in DOMAIN entry
            ELSE LastKey \notin DOMAIN entry

\* a key that is not required hits a recoverable anomaly in section i
Anomaly(i, k) ==
    LET rule == RuleOfKey(k)
        t == working_node(soup, sections[i], rule)
        li == location_of(rule)
    IN  \/ t = 0
        \/ /\ t # 0 /\ "text" \in DOMAIN li
           /\ li.text > Len(NonEmptyTexts(soup, t))
        \/ /\ t # 0 /\ "url" \in DOMAIN li
           /\ li.url > Len(find_all(soup, t, "a", NoAttrs))
        \/ /\ t # 0
           /\ LET s == locate(soup, config.source, t, li).new_section
              IN  s # <<>> /\ \A r \in 1..Len(DeclaredRegexps(k)) : MatchesIn(DeclaredRegexps(k)[r], s) = {}

\* C7: when a field that is not required hits a recoverable anomaly in a
\* section, only that field is unset there: the section's other fields are
\* resolved, the record is emitted if title, url and the declared required
\* fields are present, and every later section is processed.
C7_AnomalyStaysLocal ==
    pc = "done" =>
        \A i \in 1..Len(sections) : \A k \in KeyNames(config.keys) \ (DeclaredRequired \cup {"title", "url"}) :
            Anomaly(i, k) =>
                /\ Len(resolved) = Len(sections)
                /\ k \notin DOMAIN resolved[i]
                /\ \A o \in KeyNames(config.keys) \ {k} :
                    (o \in DOMAIN resolved[i]) = (o \in DOMAIN FieldAlone(i, o))
                /\ EntryIsValid(resolved[i]) /\ DeclaredRequired \subseteq DOMAIN resolved[i] => Emitted(i)

(***************************************************************************)
(* Properties of the torznab client.                                       *)
(***************************************************************************)
TzOutcomes == {"ready", "PluginError", "KeyError", "TypeError"}

\* the requested searcher kind (tv stands for tvsearch)
Requested == IF tz_config.searcher = "tv" THEN "tvsearch" ELSE tz_config.searcher

\* the element of the capability document that speaks for a searcher: the
\* last one of that name
ElementsOf(name) == {i \in 1..Len(tz_caps.children) : tz_caps.children[i].kind = "tag" /\ tz_caps.children[i].name = name}
ElementOf(name) == tz_caps.children[CHOOSE i \in ElementsOf(name) : \A j \in ElementsOf(name) : j <= i].attrs

MarkedAvailable(name) ==
    /\ ElementsOf(name) # {}
    /\ "available" \in DOMAIN ElementOf(name) /\ ElementOf(name)["available"] = "yes"

\* advertised as available: listed, marked available, with supported params
Advertised(name) ==
    /\ MarkedAvailable(name)
    /\ "supportedparams" \in DOMAIN ElementOf(name) /\ ElementOf(name)["supportedparams"] # <<>>

\* C8: after _setup_searcher the query type is the requested kind if that is
\* advertised as available, else 'search' if that is; if neither is, a
\* PluginError is raised and no query type is set; the selected searcher is
\* always one the document marks available.
C8_SearcherSelection ==
    tz_pc \in TzOutcomes =>
        /\ IF Advertised(aliases[Requested]) THEN tz_pc = "ready" /\ tz_params["t"] = Requested
           ELSE IF Advertised("search") THEN tz_pc = "ready" /\ tz_params["t"] = "search"
           ELSE tz_pc = "PluginError" /\ "t" \notin DOMAIN tz_params
        /\ "t" \in DOMAIN tz_params => MarkedAvailable(aliases[tz_params["t"]])

\* the key resolved last takes the literal location l (text is the default)
LiteralLocation(l) ==
    /\ "str" \in DOMAIN location_of(RuleOfKey(LastKey))
    /\ location_of(RuleOfKey(LastKey)).str = l

\* C11: for the location 'text' (given or by default) the string passed to
\* the regexps is the trimmed first non-empty text node under the working
\* node, not several text nodes joined; with no non-empty text node the
\* field is left unset.
C11_FirstTextNode ==
    JustResolved /\ LiteralLocation("text") =>
        LET texts == NonEmptyTexts(soup, tag)
        IN  IF texts = <<>> THEN new_section = <<>> /\ LastKey \notin DOMAIN entry
            ELSE new_section = strip(soup[texts[1]].text)

\* the href of the working node is already absolute
Absolute(href) == startswith(href, <<"http://">>) \/ startswith(href, <<"https://">>)

\* C12: for the location 'url' the join against the configured source is
\* applied to the working node's href exactly when the href does not start
\* with 'http://' or 'https://'; an absolute href reaches the regexps
\* without the join step.
C12_JoinOnlyRelative ==
    JustResolved /\ LiteralLocation("url") =>
        (joined <=> ~Absolute(soup[tag].attrs["href"]))

\* C13: at every non-final depth, for every parent with match count c and
\* every rule the schema allows (declared start >= 1, declared end >= 1 or
\* left to its default), the bounds used satisfy 0 <= start <= end <= c, so
\* every index the slice loop reads is inside the match list; and whenever
\* c >= 1 the slice is non-empty (start < end): clamping never drops all the
\* matches of a parent that has any.
C13_SliceWithinMatches ==
    /\ \A c \in SliceCases :
        /\ 0 <= RecOf(c).start
        /\ RecOf(c).start <= RecOf(c).end
        /\ RecOf(c).end <= RecOf(c).count
        /\ \A y \in RecOf(c).start..(RecOf(c).end - 1) : y + 1 \in DOMAIN RecOf(c).matches
        /\ RecOf(c).count >= 1 => RecOf(c).start < RecOf(c).end
    /\ SlicesUsed

C13_Witness ==
    /\ \E e \in SliceCases :
        /\ Structured(RuleOf(e)) /\ RuleOf(e).end # EndDefault
        /\ RuleOf(e).start > RecOf(e).count /\ RuleOf(e).end > RecOf(e).count
        /\ RecOf(e).count >= 1
        /\ RecOf(e).start = 0 /\ RecOf(e).end = RecOf(e).count
        /\ element_tag_list[e[1] + 1] # <<>>
    /\ \E f \in SliceCases :
        /\ Structured(RuleOf(f)) /\ RecOf(f).count >= 2
        /\ RecOf(f).start = RuleOf(f).start - 1 /\ RecOf(f).start >= 1
        /\ RecOf(f).start < RecOf(f).end

====
